---- MODULE Spec2Model ----
(***************************************************************************)
(* A model of src/src/index.js: the wallet enrichment run (run), its retry *)
(* wrapper (withRetries), the verification gate (waitIfVerification), the  *)
(* two text extractors and the sheet sink.                                 *)
(*                                                                         *)
(* Text is a sequence of one-character strings, so that the regular        *)
(* expressions of the extractors are computed, not assumed.                *)
(***************************************************************************)
EXTENDS Integers, Sequences, FiniteSets, TLC

(***************************************************************************)
(* Bounds of the model.                                                    *)
(***************************************************************************)
\* number of sheet rows / CSV records the run can see
MaxRows == 2
\* largest MAX_RETRIES value the configuration is drawn from
MaxRetriesBound == 3
\* number of process executions (the first run plus restarts)
MaxRuns == 2

(***************************************************************************)
(* Program constants.                                                      *)
(***************************************************************************)
\* index.js:16  START_ROW default
StartRow == 2
\* index.js:18  RATE_LIMIT_MS default
DefaultRateLimitMs == 2000
\* index.js:242 the base of sleep(2000 * attempt)
BackoffBaseMs == 2000

(***************************************************************************)
(* Characters and text.                                                    *)
(***************************************************************************)
Space == {" ", "\n", "\t"}
Digit == {"0", "1", "2", "3", "4", "5", "6", "7", "8", "9"}
DigitOrComma == Digit \cup {","}
Sign == {"-", "+"}

ToLower ==
    "A" :> "a" @@ "B" :> "b" @@ "C" :> "c" @@ "D" :> "d" @@ "E" :> "e" @@
    "F" :> "f" @@ "G" :> "g" @@ "H" :> "h" @@ "I" :> "i" @@ "J" :> "j" @@
    "K" :> "k" @@ "L" :> "l" @@ "M" :> "m" @@ "N" :> "n" @@ "O" :> "o" @@
    "P" :> "p" @@ "Q" :> "q" @@ "R" :> "r" @@ "S" :> "s" @@ "T" :> "t" @@
    "U" :> "u" @@ "V" :> "v" @@ "W" :> "w" @@ "X" :> "x" @@ "Y" :> "y" @@
    "Z" :> "z"

Lower(c) == IF c \in DOMAIN ToLower THEN ToLower[c] ELSE c

\* String.prototype.toLowerCase
toLowerCase(t) == [i \in 1..Len(t) |-> Lower(t[i])]

\* String.prototype.includes (case-sensitive substring test)
includes(t, lit) ==
    \E i \in 1..(Len(t) - Len(lit) + 1) :
        \A k \in 1..Len(lit) : t[i + k - 1] = lit[k]

\* a literal of a /.../i pattern (given in lower case) matches at position i
MatchAt(t, i, lit) ==
    /\ i >= 1
    /\ i + Len(lit) - 1 <= Len(t)
    /\ \A k \in 1..Len(lit) : Lower(t[i + k - 1]) = lit[k]

\* the position after the longest run of characters of class S starting at i
\* (a greedy X* ; the run is empty when RunEnd(t, i, S) = i)
RunEnd(t, i, S) ==
    CHOOSE j \in i..(Len(t) + 1) :
        /\ \A k \in i..(j - 1) : t[k] \in S
        /\ j = Len(t) + 1 \/ t[j] \notin S

\* text.replace(/\s+/g, ' ')
RECURSIVE CollapseSpaces(_)
CollapseSpaces(t) ==
    IF t = <<>> THEN <<>>
    ELSE LET j == RunEnd(t, 1, Space)
         IN  IF j > 1
             THEN <<" ">> \o CollapseSpaces(SubSeq(t, j, Len(t)))
             ELSE <<t[1]>> \o CollapseSpaces(Tail(t))

\* String.prototype.trim
Trim(t) ==
    LET a == RunEnd(t, 1, Space)
        ends == {j \in a..Len(t) : t[j] \notin Space}
    IN  IF ends = {} THEN <<>>
        ELSE SubSeq(t, a, CHOOSE j \in ends : \A k \in ends : k <= j)

\* match[1].replace(/,/g, '')
StripCommas(t) == SelectSeq(t, LAMBDA c : c # ",")

LitTotal == <<"t", "o", "t", "a", "l">>
LitMore == <<"m", "o", "r", "e">>
LitThan == <<"t", "h", "a", "n">>
LitActivit == <<"a", "c", "t", "i", "v", "i", "t">>
LitY == <<"y">>
LitIes == <<"i", "e", "s">>
LitHoldings == <<"h", "o", "l", "d", "i", "n", "g", "s">>
LitPnl == <<"p", "n", "l">>
LitJustAMoment == <<"j", "u", "s", "t", " ", "a", " ", "m", "o", "m", "e", "n", "t">>

NoMatch == [found |-> FALSE, group |-> <<>>]
Matched(g) == [found |-> TRUE, group |-> g]

\* the leftmost match of a pattern, given its match-at-position operator
Leftmost(t, At(_, _)) ==
    LET hits == {i \in 1..Len(t) : At(t, i).found}
    IN  IF hits = {} THEN NoMatch
        ELSE At(t, CHOOSE i \in hits : \A k \in hits : i <= k)

\* \s+([\d,]+)\s+activit(?:y|ies) matched from position i
\* (no backtracking can change the group: a space is no digit or comma, and
\* "a" is no space)
CountThenActivitAt(t, i) ==
    LET k == RunEnd(t, i, Space)
        m == RunEnd(t, k, DigitOrComma)
        n == RunEnd(t, m, Space)
    IN  IF /\ k > i
           /\ m > k
           /\ n > m
           /\ MatchAt(t, n, LitActivit)
           /\ \/ MatchAt(t, n + 7, LitY)
              \/ MatchAt(t, n + 7, LitIes)
        THEN Matched(SubSeq(t, k, m - 1))
        ELSE NoMatch

\* /Total\s+([\d,]+)\s+activit(?:y|ies)/i at position i
TotalPatternAt(t, i) ==
    IF MatchAt(t, i, LitTotal) THEN CountThenActivitAt(t, i + 5) ELSE NoMatch

\* /More\s+than\s+([\d,]+)\s+activit(?:y|ies)/i at position i
MoreThanPatternAt(t, i) ==
    LET j == RunEnd(t, i + 4, Space)
    IN  IF MatchAt(t, i, LitMore) /\ j > i + 4 /\ MatchAt(t, j, LitThan)
        THEN CountThenActivitAt(t, j + 4)
        ELSE NoMatch

\* /Total\s+0\s+activit(?:y|ies)/i at position i
TotalZeroPatternAt(t, i) ==
    LET k == RunEnd(t, i + 5, Space)
        n == RunEnd(t, k + 1, Space)
    IN  IF /\ MatchAt(t, i, LitTotal)
           /\ k > i + 5
           /\ MatchAt(t, k, <<"0">>)
           /\ n > k + 1
           /\ MatchAt(t, n, LitActivit)
           /\ \/ MatchAt(t, n + 7, LitY)
              \/ MatchAt(t, n + 7, LitIes)
        THEN Matched(<<"0">>)
        ELSE NoMatch

\* ([-+]?[\d,]+\.?\d*) matched from position q; every part is greedy and
\* nothing follows the group, so the first alternative tried is the match
NumberAt(t, q) ==
    LET s == IF q <= Len(t) /\ t[q] \in Sign THEN q + 1 ELSE q
        m == RunEnd(t, s, DigitOrComma)
        d == IF m <= Len(t) /\ t[m] = "." THEN m + 1 ELSE m
        e == RunEnd(t, d, Digit)
    IN  IF q <= Len(t) + 1 /\ m > s
        THEN Matched(SubSeq(t, q, e - 1))
        ELSE NoMatch

\* /Holdings\s+PnL[^\$]*\$?([-+]?[\d,]+\.?\d*)/i at position i: [^\$]* is
\* greedy, so the group is taken at the LAST position q, up to the first "$"
\* after the label, from which a number can be read
HoldingsPatternAt(t, i) ==
    LET j == RunEnd(t, i + 8, Space)
        p == j + 3
        dollar == {q \in p..Len(t) : t[q] = "$"}
        stop == IF dollar = {} THEN Len(t) + 1
                ELSE CHOOSE q \in dollar : \A k \in dollar : q <= k
        from(q) == IF q <= Len(t) /\ t[q] = "$" THEN q + 1 ELSE q
        ok == {q \in p..stop : NumberAt(t, from(q)).found}
    IN  IF /\ MatchAt(t, i, LitHoldings)
           /\ j > i + 8
           /\ MatchAt(t, j, LitPnl)
           /\ ok # {}
        THEN NumberAt(t, from(CHOOSE q \in ok : \A k \in ok : k <= q))
        ELSE NoMatch

(***************************************************************************)
(* Pages. A page is what the browser shows after page.goto: its title, its *)
(* URL (as a sequence of parts; url.includes(x) asks for a part), the      *)
(* number of elements the verification selectors find, and the body text.  *)
(***************************************************************************)
TitleSolscan == <<"S", "o", "l", "s", "c", "a", "n">>
TitleJupiter == <<"J", "u", "p", "i", "t", "e", "r">>
TitleChallenge == <<"J", "u", "s", "t", " ", "a", " ", "m", "o", "m", "e", "n", "t", ".", ".", ".">>
BodyTotal == <<"T", "o", "t", "a", "l", " ", "1", ",", "2", "3", "4", "\n", " ", "a", "c", "t", "i", "v", "i", "t", "i", "e", "s">>
BodyNoSection == <<"T", "r", "a", "n", "s", "f", "e", "r", "s">>
BodyNotFound == <<"N", "o", "t", " ", "f", "o", "u", "n", "d">>
BodyChallenge == <<"V", "e", "r", "i", "f", "y">>
BodyPnlUsd == <<"H", "o", "l", "d", "i", "n", "g", "s", " ", "P", "n", "L", " ", "$", "-", "1", ",", "2", "3", "4", ".", "5", "6">>
BodyNoLabel == <<"P", "o", "r", "t", "f", "o", "l", "i", "o">>

BlankPage == [title |-> <<>>, url |-> <<"about:blank">>, widgets |-> 0, body |-> <<>>]

\* index.js:296  the URL run navigates to for the activities metric
SolscanUrl(wallet) == <<"https://solscan.io/account/", wallet, "#activities">>
\* index.js:312  the URL run navigates to for the holdings metric
JupiterUrl(wallet) == <<"https://jup.ag/portfolio/", wallet>>

UrlIncludes(url, part) == \E i \in 1..Len(url) : url[i] = part

\* what Solscan may answer to a navigation that succeeds
SolscanPages(wallet) ==
    { [title |-> TitleSolscan, url |-> SolscanUrl(wallet), widgets |-> 0,
       body |-> BodyTotal],
      [title |-> TitleSolscan, url |-> SolscanUrl(wallet), widgets |-> 0,
       body |-> BodyNoSection],
      [title |-> TitleSolscan, url |-> <<"https://solscan.io/">>, widgets |-> 0,
       body |-> BodyNotFound],
      [title |-> TitleChallenge, url |-> SolscanUrl(wallet), widgets |-> 0,
       body |-> BodyChallenge] }

\* what Jupiter may answer to a navigation that succeeds
JupiterPages(wallet) ==
    { [title |-> TitleJupiter, url |-> JupiterUrl(wallet), widgets |-> 0,
       body |-> BodyPnlUsd],
      [title |-> TitleJupiter, url |-> JupiterUrl(wallet), widgets |-> 0,
       body |-> BodyNoLabel],
      [title |-> TitleJupiter, url |-> JupiterUrl(wallet), widgets |-> 1,
       body |-> BodyChallenge] }

PagesOf(m, wallet) ==
    IF m = "solscan" THEN SolscanPages(wallet) ELSE JupiterPages(wallet)

(***************************************************************************)
(* The pure functions of index.js.                                         *)
(***************************************************************************)
Returned(v) == [ok |-> TRUE, value |-> v, error |-> "none"]
Thrown(e) == [ok |-> FALSE, value |-> <<>>, error |-> e]

\* index.js:131-158
detectVerification(p) ==
    \/ includes(toLowerCase(p.title), LitJustAMoment)
    \/ UrlIncludes(p.url, "challenge-platform")
    \/ p.widgets > 0

\* a bug that tries the "More than" pattern before the "Total" pattern
extractSolscanActivities_MoreFirst(p) ==
    LET cleanText == Trim(CollapseSpaces(p.body))
        total == Leftmost(cleanText, TotalPatternAt)
        more == Leftmost(cleanText, MoreThanPatternAt)
        zero == Leftmost(cleanText, TotalZeroPatternAt)
    IN  IF more.found THEN Returned(StripCommas(more.group))
        ELSE IF total.found THEN Returned(StripCommas(total.group))
        ELSE IF zero.found THEN Returned(<<"0">>)
        ELSE IF UrlIncludes(p.url, "#activities") THEN Returned(<<"0">>)
        ELSE Thrown("Unable to locate Solscan activities section on page.")

\* index.js:166-215
extractSolscanActivities(p) ==
    LET cleanText == Trim(CollapseSpaces(p.body))
        total == Leftmost(cleanText, TotalPatternAt)
        more == Leftmost(cleanText, MoreThanPatternAt)
        zero == Leftmost(cleanText, TotalZeroPatternAt)
    IN  IF total.found THEN Returned(StripCommas(total.group))
        ELSE IF more.found THEN Returned(StripCommas(more.group))
        ELSE IF zero.found THEN Returned(<<"0">>)
        ELSE IF UrlIncludes(p.url, "#activities") THEN Returned(<<"0">>)
        ELSE Thrown("Unable to locate Solscan activities section on page.")

\* index.js:217-232
extractJupiterHoldingsPnl(p) ==
    LET match == Leftmost(p.body, HoldingsPatternAt)
    IN  IF match.found THEN Returned(Trim(match.group))
        ELSE Thrown("Unable to locate Holdings PnL value on page.")

\* a bug that implements the README's "exponential backoff"
BackoffMs_Exponential(attempt) == 2000 * (2 ^ attempt)

\* index.js:242  the argument of the sleep in withRetries' catch block
BackoffMs(attempt) == 2000 * attempt

\* JavaScript truthiness of a cell (a string or undefined)
Truthy(v) == v # <<>>

\* a bug that tests the address against undefined only
MissingWallet_UndefinedOnly(entry) == entry.wallet = "undefined"

\* index.js:283  !wallet
MissingWallet(entry) == entry.wallet = ""

\* a bug that reads a field the records do not have
AlreadyProcessed_WrongField(entry) == Truthy(entry.activities) /\ Truthy(<<>>)

\* a bug that skips a row as soon as one of the two fields is filled
AlreadyProcessed_Either(entry) == Truthy(entry.activities) \/ Truthy(entry.holdingsPnl)

\* index.js:287  walletEntry.activities && walletEntry.holdingsPnl
AlreadyProcessed(entry) == Truthy(entry.activities) /\ Truthy(entry.holdingsPnl)

\* index.js:32-43
ensureConfig(cfg) == cfg.sheetId /\ cfg.serviceAccountJson

(***************************************************************************)
(* The sheet and the two wallet sources.                                   *)
(***************************************************************************)
Rows == StartRow..(StartRow + MaxRows - 1)
Addresses == <<"wA", "wB", "wC", "wD", "wE", "wF">>
OldActivities == <<"7">>
OldPnl == <<"1">>

\* index.js:78-92  one record per CSV record, no result fields
loadWalletsFromCsv(cfg, file) ==
    IF ~cfg.csvPath THEN <<>>
    ELSE [i \in 1..Len(file) |->
            [wallet |-> file[i], activities |-> <<>>, holdingsPnl |-> <<>>,
             rowIndex |-> StartRow + (i - 1)]]

\* index.js:94-107  values.get returns the rows of A:D down to the last row
\* that holds a value
loadWalletsFromSheet(sh) ==
    LET used == {r \in Rows : sh[r].a # "" \/ sh[r].c # <<>> \/ sh[r].d # <<>>}
        n == IF used = {} THEN 0
             ELSE (CHOOSE r \in used : \A q \in used : q <= r) - StartRow + 1
    IN  [i \in 1..n |->
            [wallet |-> sh[StartRow + (i - 1)].a,
             activities |-> sh[StartRow + (i - 1)].c,
             holdingsPnl |-> sh[StartRow + (i - 1)].d,
             rowIndex |-> StartRow + (i - 1)]]

\* a bug that passes the two values in the wrong order
writeSheetValues_Swapped(sh, rowIndex, activitiesValue, pnlValue) ==
    [sh EXCEPT ![rowIndex] = [a |-> @.a, c |-> pnlValue, d |-> activitiesValue]]

\* index.js:109-119  the cells C<row>:D<row> are set in one update
writeSheetValues(sh, rowIndex, activitiesValue, pnlValue) ==
    [sh EXCEPT ![rowIndex] = [a |-> @.a, c |-> activitiesValue, d |-> pnlValue]]

\* the pages the run can be shown
RunPages(m) == UNION {PagesOf(m, Addresses[i]) : i \in 1..Len(Addresses)}

\* what each extractor does on each of these pages (computed once)
SolscanResult == [p \in RunPages("solscan") |-> extractSolscanActivities(p)]
JupiterResult == [p \in RunPages("jupiter") |-> extractJupiterHoldingsPnl(p)]

\* index.js:300 / 316  the extractor of the task, called on the page
Extract(m, p) == IF m = "solscan" THEN SolscanResult[p] ELSE JupiterResult[p]

(***************************************************************************)
(* State.                                                                  *)
(***************************************************************************)
VARIABLES
    config,          \* CONFIG (index.js:11-22), read from the environment
    csvFile,         \* the wallet column of the records of the CSV file
    sheet,           \* the spreadsheet: row -> cells A, C and D
    runs,            \* how many times the process was started
    pc,              \* where run() stands
    wallets,         \* run's wallets
    idx,             \* position of the for-of loop in wallets (1-based)
    metric,          \* which withRetries call is active: "solscan" / "jupiter"
    attempt,         \* withRetries' attempt
    page,            \* what the single browser page shows
    error,           \* the error a task attempt has just thrown
    lastError,       \* withRetries' lastError ("undefined" until assigned)
    activitiesValue, \* run's activitiesValue
    pnlValue,        \* run's pnlValue
    raised,          \* the error that escaped run()
    exitCode,        \* the process exit code, -1 while running
    \* observations of the run (written, never read, by the actions)
    calls,           \* calls made inside the active withRetries call
    writeCalls,      \* writeSheetValues calls of this loop iteration
    visited,         \* rowIndex of every wallet a page.goto was issued for
    extracted,       \* rowIndex of every wallet an extractor was called for
    results,         \* rowIndex -> the values the extractors last returned
    skipLog,         \* the "Skipping ..." log entries of this run
    writeLog,        \* the writeSheetValues calls of this run that succeeded
    lastSleep,       \* the last sleep(): which one, how long, after which attempt
    navUnpaused,     \* a page.goto was issued and no rate-limit sleep since
    stalled,         \* the operator resumed a stall and no page.goto since
    step,            \* the step of run() taken last
    prevWritten,     \* rows whose cells C and D an earlier run wrote
    doc              \* the pieces the body text handed to an extractor is
                     \* made of (empty while the run browses the sites)

vars == <<config, csvFile, sheet, runs, pc, wallets, idx, metric, attempt, page,
          error, lastError, activitiesValue, pnlValue, raised, exitCode,
          calls, writeCalls, visited, extracted, results, skipLog, writeLog,
          lastSleep, navUnpaused, stalled, step, prevWritten, doc>>

obsVars == <<calls, writeCalls, visited, extracted, results, skipLog, writeLog,
             lastSleep, navUnpaused, stalled>>

NoCalls == [task |-> 0, hook |-> 0]
NoSleep == [kind |-> "none", ms |-> 0, after |-> 0]
NoResults == [r \in Rows |-> [activities |-> <<>>, holdingsPnl |-> <<>>]]

RateLimitChoices == {DefaultRateLimitMs}

Configs ==
    [sheetId : BOOLEAN, serviceAccountJson : BOOLEAN, csvPath : BOOLEAN,
     maxRetries : 0..MaxRetriesBound, rateLimitMs : RateLimitChoices]

\* a row holds its wallet with any of the four fillings of C and D, or no
\* wallet with C and D both empty or both filled
SheetRows ==
    [r \in Rows |->
        [a : {Addresses[r - StartRow + 1]}, c : {<<>>, OldActivities},
         d : {<<>>, OldPnl}]
        \cup {[a |-> "", c |-> <<>>, d |-> <<>>],
              [a |-> "", c |-> OldActivities, d |-> OldPnl]}]

Sheets == {sh \in [Rows -> UNION {SheetRows[r] : r \in Rows}] :
              \A r \in Rows : sh[r] \in SheetRows[r]}

\* the state of a process that has just been started
Fresh ==
    /\ pc = "start"
    /\ wallets = <<>>
    /\ idx = 1
    /\ metric = "solscan"
    /\ attempt = 1
    /\ page = BlankPage
    /\ error = "none"
    /\ lastError = "undefined"
    /\ activitiesValue = <<>>
    /\ pnlValue = <<>>
    /\ raised = "none"
    /\ exitCode = -1
    /\ calls = NoCalls
    /\ writeCalls = 0
    /\ visited = {}
    /\ extracted = {}
    /\ results = NoResults
    /\ skipLog = <<>>
    /\ writeLog = <<>>
    /\ lastSleep = NoSleep
    /\ navUnpaused = FALSE
    /\ stalled = FALSE
    /\ step = "none"

\* A configuration that fails ensureConfig is taken with one sheet only: the
\* run ends before it reads anything else. With CSV_PATH set, the file lists
\* the wallets of column A (the README's setup) and the result columns start
\* empty; without it the file is unused.
Init ==
    /\ config \in Configs
    /\ sheet \in Sheets
    /\ config.csvPath => \A r \in Rows : sheet[r].c = <<>> /\ sheet[r].d = <<>>
    /\ ~ensureConfig(config) =>
          /\ sheet = [r \in Rows |-> [a |-> "", c |-> <<>>, d |-> <<>>]]
          /\ ~config.csvPath
          /\ config.maxRetries = 1
          /\ config.rateLimitMs = DefaultRateLimitMs
    /\ csvFile = IF config.csvPath
                 THEN [i \in 1..MaxRows |-> sheet[StartRow + (i - 1)].a]
                 ELSE <<>>
    /\ runs = 1
    /\ prevWritten = {}
    /\ doc = <<>>
    /\ Fresh

(***************************************************************************)
(* The run. One action per step between two awaits of run().               *)
(***************************************************************************)
Entry == wallets[idx]

\* index.js:234-236  withRetries is entered: attempt = 1 and the loop test;
\* with no attempt allowed the loop body never runs and "throw lastError"
\* (index.js:245) throws undefined into the .catch hook
EnterRetries(m) ==
    /\ metric' = m
    /\ attempt' = 1
    /\ lastError' = "undefined"
    /\ error' = "none"
    /\ calls' = NoCalls
    /\ pc' = IF 1 <= config.maxRetries THEN "goto" ELSE "hook"

\* index.js:263-278  ensureConfig, the sheets client, both wallet sources,
\* the empty-list return and the browser launch
Startup ==
    /\ pc = "start"
    /\ step' = "Startup"
    /\ \/ /\ ~ensureConfig(config)
          /\ raised' = "ConfigError"
          /\ pc' = "fatal"
          /\ UNCHANGED <<wallets, exitCode>>
       \/ /\ ensureConfig(config)
          /\ raised' = "StartupError"
          /\ pc' = "fatal"
          /\ UNCHANGED <<wallets, exitCode>>
       \/ /\ ensureConfig(config)
          /\ LET csvWallets == loadWalletsFromCsv(config, csvFile)
                 sheetWallets == loadWalletsFromSheet(sheet)
                 loaded == IF Len(csvWallets) # 0 THEN csvWallets ELSE sheetWallets
             IN  /\ wallets' = loaded
                 /\ pc' = IF Len(loaded) = 0 THEN "done" ELSE "loop"
                 /\ exitCode' = IF Len(loaded) = 0 THEN 0 ELSE exitCode
          /\ UNCHANGED raised
    /\ UNCHANGED <<doc, config, csvFile, sheet, runs, prevWritten, idx, metric,
                   attempt, page, error, lastError, activitiesValue, pnlValue>>
    /\ UNCHANGED obsVars

\* index.js:280, 330  the for-of loop is over: browser.close() and return
EndLoop ==
    /\ pc = "loop"
    /\ step' = "EndLoop"
    /\ idx > Len(wallets)
    /\ pc' = "done"
    /\ exitCode' = 0
    /\ UNCHANGED <<doc, config, csvFile, sheet, runs, prevWritten, wallets, idx,
                   metric, attempt, page, error, lastError, activitiesValue,
                   pnlValue, raised>>
    /\ UNCHANGED obsVars

\* index.js:283-286
SkipEmpty ==
    /\ pc = "loop"
    /\ step' = "SkipEmpty"
    /\ idx <= Len(wallets)
    /\ MissingWallet(Entry)
    /\ skipLog' = Append(skipLog, [message |-> "Skipping empty wallet row",
                                   rowIndex |-> Entry.rowIndex])
    /\ idx' = idx + 1
    /\ UNCHANGED <<doc, config, csvFile, sheet, runs, prevWritten, pc, wallets,
                   metric, attempt, page, error, lastError, activitiesValue,
                   pnlValue, raised, exitCode>>
    /\ UNCHANGED <<calls, writeCalls, visited, extracted, results, writeLog,
                   lastSleep, navUnpaused, stalled>>

\* index.js:287-290
SkipProcessed ==
    /\ pc = "loop"
    /\ step' = "SkipProcessed"
    /\ idx <= Len(wallets)
    /\ ~MissingWallet(Entry)
    /\ AlreadyProcessed(Entry)
    /\ skipLog' = Append(skipLog, [message |-> "Skipping already processed row",
                                   rowIndex |-> Entry.rowIndex])
    /\ idx' = idx + 1
    /\ UNCHANGED <<doc, config, csvFile, sheet, runs, prevWritten, pc, wallets,
                   metric, attempt, page, error, lastError, activitiesValue,
                   pnlValue, raised, exitCode>>
    /\ UNCHANGED <<calls, writeCalls, visited, extracted, results, writeLog,
                   lastSleep, navUnpaused, stalled>>

\* index.js:292-294  "Processing wallet" and the entry into the first
\* withRetries call
BeginWallet ==
    /\ pc = "loop"
    /\ step' = "BeginWallet"
    /\ idx <= Len(wallets)
    /\ ~MissingWallet(Entry)
    /\ ~AlreadyProcessed(Entry)
    /\ EnterRetries("solscan")
    /\ writeCalls' = 0
    /\ UNCHANGED <<doc, config, csvFile, sheet, runs, prevWritten, wallets, idx,
                   page, activitiesValue, pnlValue, raised, exitCode>>
    /\ UNCHANGED <<visited, extracted, results, skipLog, writeLog, lastSleep,
                   navUnpaused, stalled>>

\* a change that lets a navigation timeout escape withRetries
Goto_NavigationEscapes ==
    /\ pc = "goto"
    /\ step' = "Goto"
    /\ calls' = [calls EXCEPT !.task = @ + 1]
    /\ visited' = visited \cup {Entry.rowIndex}
    /\ navUnpaused' = TRUE
    /\ stalled' = FALSE
    /\ \/ /\ page' \in PagesOf(metric, Entry.wallet)
          /\ pc' = "detect"
          /\ UNCHANGED error
       \/ /\ page' = BlankPage
          /\ error' = "NavigationError"
          /\ pc' = "hook"
    /\ UNCHANGED <<doc, config, csvFile, sheet, runs, prevWritten, wallets, idx,
                   metric, attempt, lastError, activitiesValue, pnlValue,
                   raised, exitCode>>
    /\ UNCHANGED <<writeCalls, extracted, results, skipLog, writeLog, lastSleep>>

\* index.js:238, 296-298 / 312-314  the task is invoked and navigates; the
\* navigation succeeds and shows some page of the site, or times out
Goto ==
    /\ pc = "goto"
    /\ step' = "Goto"
    /\ calls' = [calls EXCEPT !.task = @ + 1]
    /\ visited' = visited \cup {Entry.rowIndex}
    /\ navUnpaused' = TRUE
    /\ stalled' = FALSE
    /\ \/ /\ page' \in PagesOf(metric, Entry.wallet)
          /\ pc' = "detect"
          /\ UNCHANGED error
       \/ /\ page' = BlankPage
          /\ error' = "NavigationError"
          /\ pc' = "catch"
    /\ UNCHANGED <<doc, config, csvFile, sheet, runs, prevWritten, wallets, idx,
                   metric, attempt, lastError, activitiesValue, pnlValue,
                   raised, exitCode>>
    /\ UNCHANGED <<writeCalls, extracted, results, skipLog, writeLog, lastSleep>>

\* index.js:160-161, 299 / 315  waitIfVerification consults the detector
Detect ==
    /\ pc = "detect"
    /\ step' = "Detect"
    /\ pc' = IF detectVerification(page) THEN "prompt" ELSE "extract"
    /\ UNCHANGED <<doc, config, csvFile, sheet, runs, prevWritten, wallets, idx,
                   metric, attempt, page, error, lastError, activitiesValue,
                   pnlValue, raised, exitCode>>
    /\ UNCHANGED <<calls, writeCalls, visited, extracted, results, skipLog, writeLog,
                   lastSleep, navUnpaused, stalled>>

\* a bug that counts the stall as an attempt
Resume_CountsAttempt ==
    /\ pc = "prompt"
    /\ step' = "Resume"
    /\ stalled' = TRUE
    /\ page' \in PagesOf(metric, Entry.wallet)
    /\ attempt' = attempt + 1
    /\ pc' = "extract"
    /\ UNCHANGED <<doc, config, csvFile, sheet, runs, prevWritten, wallets, idx,
                   metric, error, lastError, activitiesValue,
                   pnlValue, raised, exitCode>>
    /\ UNCHANGED <<calls, writeCalls, visited, extracted, results, skipLog, writeLog,
                   lastSleep, navUnpaused>>

\* a change that navigates again after the stall
Resume_Renavigates ==
    /\ pc = "prompt"
    /\ step' = "Resume"
    /\ stalled' = TRUE
    /\ pc' = "goto"
    /\ UNCHANGED <<doc, config, csvFile, sheet, runs, prevWritten, wallets, idx,
                   metric, attempt, page, error, lastError, activitiesValue,
                   pnlValue, raised, exitCode>>
    /\ UNCHANGED <<calls, writeCalls, visited, extracted, results, skipLog, writeLog,
                   lastSleep, navUnpaused>>

\* a bug that asks again after the operator pressed Enter
Resume_StaysStalled ==
    /\ pc = "prompt"
    /\ step' = "Resume"
    /\ stalled' = TRUE
    /\ page' \in PagesOf(metric, Entry.wallet)
    /\ pc' = "prompt"
    /\ UNCHANGED <<doc, config, csvFile, sheet, runs, prevWritten, wallets, idx,
                   metric, attempt, error, lastError, activitiesValue,
                   pnlValue, raised, exitCode>>
    /\ UNCHANGED <<calls, writeCalls, visited, extracted, results, skipLog,
                   writeLog, lastSleep, navUnpaused>>

\* index.js:121-129, 162-164  the operator presses Enter: rl.question's
\* promise resolves and waitIfVerification returns. Meanwhile the page shows
\* whatever the site serves once the challenge is dealt with (or not).
Resume ==
    /\ pc = "prompt"
    /\ step' = "Resume"
    /\ stalled' = TRUE
    /\ page' \in PagesOf(metric, Entry.wallet)
    /\ pc' = "extract"
    /\ UNCHANGED <<doc, config, csvFile, sheet, runs, prevWritten, wallets, idx,
                   metric, attempt, error, lastError, activitiesValue,
                   pnlValue, raised, exitCode>>
    /\ UNCHANGED <<calls, writeCalls, visited, extracted, results, skipLog, writeLog,
                   lastSleep, navUnpaused>>

\* a change that goes on to the sink write when the holdings extractor
\* throws, with whatever pnlValue holds
ExtractStep_Fallback ==
    /\ pc = "extract"
    /\ step' = "ExtractStep"
    /\ extracted' = extracted \cup {Entry.rowIndex}
    /\ LET r == Extract(metric, page)
       IN  \/ /\ r.ok
              /\ metric = "solscan"
              /\ activitiesValue' = r.value
              /\ results' = [results EXCEPT ![Entry.rowIndex].activities = r.value]
              /\ pc' = "pause1"
              /\ UNCHANGED <<pnlValue, error>>
           \/ /\ r.ok
              /\ metric = "jupiter"
              /\ pnlValue' = r.value
              /\ results' = [results EXCEPT ![Entry.rowIndex].holdingsPnl = r.value]
              /\ pc' = "write"
              /\ UNCHANGED <<activitiesValue, error>>
           \/ /\ ~r.ok
              /\ metric = "solscan"
              /\ error' = r.error
              /\ pc' = "catch"
              /\ UNCHANGED <<activitiesValue, pnlValue, results>>
           \/ /\ ~r.ok
              /\ metric = "jupiter"
              /\ pc' = "write"
              /\ UNCHANGED <<activitiesValue, pnlValue, results, error>>
    /\ UNCHANGED <<doc, config, csvFile, sheet, runs, prevWritten, wallets, idx,
                   metric, attempt, page, lastError, raised, exitCode>>
    /\ UNCHANGED <<calls, writeCalls, visited, skipLog, writeLog, lastSleep,
                   navUnpaused, stalled>>

\* index.js:300 / 316, 238  the extractor runs on the page; its value is
\* withRetries' value (index.js:294 / 310), its error goes to the catch block
ExtractStep ==
    /\ pc = "extract"
    /\ step' = "ExtractStep"
    /\ extracted' = extracted \cup {Entry.rowIndex}
    /\ LET r == Extract(metric, page)
       IN  \/ /\ r.ok
              /\ metric = "solscan"
              /\ activitiesValue' = r.value
              /\ results' = [results EXCEPT ![Entry.rowIndex].activities = r.value]
              /\ pc' = "pause1"
              /\ UNCHANGED <<pnlValue, error>>
           \/ /\ r.ok
              /\ metric = "jupiter"
              /\ pnlValue' = r.value
              /\ results' = [results EXCEPT ![Entry.rowIndex].holdingsPnl = r.value]
              /\ pc' = "write"
              /\ UNCHANGED <<activitiesValue, error>>
           \/ /\ ~r.ok
              /\ error' = r.error
              /\ pc' = "catch"
              /\ UNCHANGED <<activitiesValue, pnlValue, results>>
    /\ UNCHANGED <<doc, config, csvFile, sheet, runs, prevWritten, wallets, idx,
                   metric, attempt, page, lastError, raised, exitCode>>
    /\ UNCHANGED <<calls, writeCalls, visited, skipLog, writeLog, lastSleep,
                   navUnpaused, stalled>>

\* a bug that retries at once, without the backoff sleep
Catch_NoSleep ==
    /\ pc = "catch"
    /\ step' = "Catch"
    /\ lastError' = error
    /\ error' = "none"
    /\ attempt' = attempt + 1
    /\ pc' = IF attempt + 1 <= config.maxRetries THEN "goto" ELSE "hook"
    /\ UNCHANGED <<doc, config, csvFile, sheet, runs, prevWritten, wallets, idx,
                   metric, page, activitiesValue, pnlValue, raised, exitCode>>
    /\ UNCHANGED <<calls, writeCalls, visited, extracted, results, skipLog,
                   writeLog, navUnpaused, stalled, lastSleep>>

\* index.js:239-243, 236, 245  the catch block (lastError, the log entry, the
\* backoff sleep), then attempt += 1 and the loop test
Catch ==
    /\ pc = "catch"
    /\ step' = "Catch"
    /\ lastError' = error
    /\ error' = "none"
    /\ lastSleep' = [kind |-> "backoff", ms |-> BackoffMs(attempt), after |-> attempt]
    /\ attempt' = attempt + 1
    /\ pc' = IF attempt + 1 <= config.maxRetries THEN "goto" ELSE "hook"
    /\ UNCHANGED <<doc, config, csvFile, sheet, runs, prevWritten, wallets, idx,
                   metric, page, activitiesValue, pnlValue, raised, exitCode>>
    /\ UNCHANGED <<calls, writeCalls, visited, extracted, results, skipLog,
                   writeLog, navUnpaused, stalled>>

\* index.js:303-306 / 319-322, 254-260  the .catch hook: the screenshot is
\* taken and the error rethrown, or the capture itself throws
Hook ==
    /\ pc = "hook"
    /\ step' = "Hook"
    /\ calls' = [calls EXCEPT !.hook = @ + 1]
    /\ \/ raised' = lastError
       \/ raised' = "ScreenshotError"
    /\ pc' = "fatal"
    /\ UNCHANGED <<doc, config, csvFile, sheet, runs, prevWritten, wallets, idx,
                   metric, attempt, page, error, lastError, activitiesValue,
                   pnlValue, exitCode>>
    /\ UNCHANGED <<writeCalls, visited, extracted, results, skipLog, writeLog,
                   lastSleep, navUnpaused, stalled>>

\* index.js:308-310  the pause between the two metrics, then the entry into
\* the second withRetries call
RateLimitPause1 ==
    /\ pc = "pause1"
    /\ step' = "RateLimitPause1"
    /\ lastSleep' = [kind |-> "rateLimit", ms |-> config.rateLimitMs, after |-> 0]
    /\ navUnpaused' = FALSE
    /\ EnterRetries("jupiter")
    /\ UNCHANGED <<doc, config, csvFile, sheet, runs, prevWritten, wallets, idx,
                   page, activitiesValue, pnlValue, raised, exitCode>>
    /\ UNCHANGED <<writeCalls, visited, extracted, results, skipLog, writeLog,
                   stalled>>

\* a change that takes a rate-limit sleep before the sink write
Write_AfterPause ==
    /\ pc = "write"
    /\ step' = "Write"
    /\ lastSleep' = [kind |-> "rateLimit", ms |-> config.rateLimitMs, after |-> 0]
    /\ navUnpaused' = FALSE
    /\ writeCalls' = writeCalls + 1
    /\ \/ /\ sheet' = writeSheetValues(sheet, Entry.rowIndex, activitiesValue, pnlValue)
          /\ writeLog' = Append(writeLog, [rowIndex |-> Entry.rowIndex,
                                           activities |-> activitiesValue,
                                           holdingsPnl |-> pnlValue])
          /\ pc' = "pause3"
          /\ UNCHANGED raised
       \/ /\ raised' = "SinkError"
          /\ pc' = "fatal"
          /\ UNCHANGED <<sheet, writeLog>>
    /\ UNCHANGED <<doc, config, csvFile, runs, prevWritten, wallets, idx, metric,
                   attempt, page, error, lastError, activitiesValue, pnlValue,
                   exitCode>>
    /\ UNCHANGED <<calls, visited, extracted, results, skipLog, stalled>>

\* index.js:324-325  the sink write: it updates the row, or throws
Write ==
    /\ pc = "write"
    /\ step' = "Write"
    /\ writeCalls' = writeCalls + 1
    /\ \/ /\ sheet' = writeSheetValues(sheet, Entry.rowIndex, activitiesValue, pnlValue)
          /\ writeLog' = Append(writeLog, [rowIndex |-> Entry.rowIndex,
                                           activities |-> activitiesValue,
                                           holdingsPnl |-> pnlValue])
          /\ pc' = "pause3"
          /\ UNCHANGED raised
       \/ /\ raised' = "SinkError"
          /\ pc' = "fatal"
          /\ UNCHANGED <<sheet, writeLog>>
    /\ UNCHANGED <<doc, config, csvFile, runs, prevWritten, wallets, idx, metric,
                   attempt, page, error, lastError, activitiesValue, pnlValue,
                   exitCode>>
    /\ UNCHANGED <<calls, visited, extracted, results, skipLog, lastSleep,
                   navUnpaused, stalled>>

\* a bug that drops the pause after the wallet
RateLimitPause3_NoSleep ==
    /\ pc = "pause3"
    /\ step' = "RateLimitPause3"
    /\ idx' = idx + 1
    /\ pc' = "loop"
    /\ UNCHANGED <<doc, config, csvFile, sheet, runs, prevWritten, wallets, metric,
                   attempt, page, error, lastError, activitiesValue, pnlValue,
                   raised, exitCode>>
    /\ UNCHANGED <<calls, writeCalls, visited, extracted, results, skipLog,
                   writeLog, stalled, lastSleep, navUnpaused>>

\* index.js:327-328  the pause after the wallet, then the next loop entry
RateLimitPause3 ==
    /\ pc = "pause3"
    /\ step' = "RateLimitPause3"
    /\ lastSleep' = [kind |-> "rateLimit", ms |-> config.rateLimitMs, after |-> 0]
    /\ navUnpaused' = FALSE
    /\ idx' = idx + 1
    /\ pc' = "loop"
    /\ UNCHANGED <<doc, config, csvFile, sheet, runs, prevWritten, wallets, metric,
                   attempt, page, error, lastError, activitiesValue, pnlValue,
                   raised, exitCode>>
    /\ UNCHANGED <<calls, writeCalls, visited, extracted, results, skipLog,
                   writeLog, stalled>>

\* a change that catches the failure and goes on with the next wallet
Fatal_Continue ==
    /\ pc = "fatal"
    /\ step' = "Fatal"
    /\ idx' = idx + 1
    /\ pc' = "loop"
    /\ UNCHANGED <<doc, config, csvFile, sheet, runs, prevWritten, wallets,
                   metric, attempt, page, error, lastError, activitiesValue,
                   pnlValue, raised, exitCode>>
    /\ UNCHANGED obsVars

\* index.js:333-336  run().catch: the fatal log line and process.exit(1)
\* (an undefined error makes error.message throw: the rejection is then
\* unhandled and the process still ends with code 1)
Fatal ==
    /\ pc = "fatal"
    /\ step' = "Fatal"
    /\ exitCode' = 1
    /\ pc' = "done"
    /\ UNCHANGED <<doc, config, csvFile, sheet, runs, prevWritten, wallets, idx,
                   metric, attempt, page, error, lastError, activitiesValue,
                   pnlValue, raised>>
    /\ UNCHANGED obsVars

\* the rows of this run's successful writes that left both cells non-empty
WrittenRows ==
    {writeLog[i].rowIndex : i \in {k \in 1..Len(writeLog) :
        Truthy(writeLog[k].activities) /\ Truthy(writeLog[k].holdingsPnl)}}

\* README "resume support": the process is started again after an aborted
\* run, over the same configuration, file and sheet
Restart ==
    /\ pc = "done"
    /\ step' = "Restart"
    /\ exitCode = 1
    /\ runs < MaxRuns
    /\ runs' = runs + 1
    /\ prevWritten' = prevWritten \cup WrittenRows
    /\ pc' = "start"
    /\ wallets' = <<>>
    /\ idx' = 1
    /\ metric' = "solscan"
    /\ attempt' = 1
    /\ page' = BlankPage
    /\ error' = "none"
    /\ lastError' = "undefined"
    /\ activitiesValue' = <<>>
    /\ pnlValue' = <<>>
    /\ raised' = "none"
    /\ exitCode' = -1
    /\ calls' = NoCalls
    /\ writeCalls' = 0
    /\ visited' = {}
    /\ extracted' = {}
    /\ results' = NoResults
    /\ skipLog' = <<>>
    /\ writeLog' = <<>>
    /\ lastSleep' = NoSleep
    /\ navUnpaused' = FALSE
    /\ stalled' = FALSE
    /\ UNCHANGED <<doc, config, csvFile, sheet>>

Next ==
    \/ Startup
    \/ EndLoop
    \/ SkipEmpty
    \/ SkipProcessed
    \/ BeginWallet
    \/ Goto
    \/ Detect
    \/ Resume
    \/ ExtractStep
    \/ Catch
    \/ Hook
    \/ RateLimitPause1
    \/ Write
    \/ RateLimitPause3
    \/ Fatal

\* one execution of the process
Spec == Init /\ [][Next]_vars

\* one execution of the process in which every awaited operation settles and
\* the operator answers every prompt: run() is a single chain of awaits, so
\* whenever a step is possible the next one is taken
SpecLive == Init /\ [][Next]_vars /\ WF_vars(Next)

NextResume ==
    \/ Next
    \/ Restart

\* the process and its restarts after an aborted run
SpecResume == Init /\ [][NextResume]_vars

(***************************************************************************)
(* The two extractors on their own. A body text is put together from       *)
(* pieces, each a phrase of the page set apart from the next by " | ", and *)
(* handed to the extractor once.                                           *)
(***************************************************************************)
\* number of pieces of a body text, at most
MaxPieces == 2

Separator == <<" ", "|", " ">>

TextTotal ==
    <<"T", "o", "t", "a", "l", " ", "1", ",", "2", "3", "4", " ", "a", "c",
      "t", "i", "v", "i", "t", "i", "e", "s">>
TextTotalZero ==
    <<"T", "o", "t", "a", "l", " ", "0", " ", "a", "c", "t", "i", "v", "i",
      "t", "y">>
TextTotalSpaced ==
    <<"T", "O", "T", "A", "L", "\n", "\t", "5", "6", " ", " ", "A", "c", "t",
      "i", "v", "i", "t", "y">>
TextMoreThan ==
    <<"M", "o", "r", "e", " ", "t", "h", "a", "n", " ", "5", ",", "0", "0",
      "0", " ", "a", "c", "t", "i", "v", "i", "t", "i", "e", "s">>
TextTransfers ==
    <<"T", "o", "t", "a", "l", " ", "9", " ", "t", "r", "a", "n", "s", "f",
      "e", "r", "s">>
TextMoreVague ==
    <<"M", "o", "r", "e", " ", "t", "h", "a", "n", " ", "a", " ", "f", "e",
      "w", " ", "a", "c", "t", "i", "v", "i", "t", "i", "e", "s">>
TextPnlUsd ==
    <<"H", "o", "l", "d", "i", "n", "g", "s", " ", "P", "n", "L", " ", "$",
      "-", "1", ",", "2", "3", "4", ".", "5", "6">>
TextPnlPlain ==
    <<"H", "o", "l", "d", "i", "n", "g", "s", " ", "P", "n", "L", " ", "-",
      "1", ",", "2", "3", "4", ".", "5", "6">>
TextPnlSpaced ==
    <<"H", "O", "L", "D", "I", "N", "G", "S", "\n", "P", "N", "L", ":", " ",
      "$", "+", "7", ".", "5">>
TextPnlInteger ==
    <<"H", "o", "l", "d", "i", "n", "g", "s", " ", "P", "n", "L", " ", "1",
      "2">>
TextPnlMissing ==
    <<"H", "o", "l", "d", "i", "n", "g", "s", " ", "P", "n", "L", " ", "n",
      "/", "a">>
TextNetWorth ==
    <<"N", "e", "t", " ", "w", "o", "r", "t", "h", " ", "$", "9", "9">>
TextPortfolio ==
    <<"P", "o", "r", "t", "f", "o", "l", "i", "o">>

\* the pieces of a Solscan body text: the text, the phrase it is and the
\* count the phrase states
SolscanPieces ==
    { [text |-> TextTotal, kind |-> "total", count |-> <<"1", "2", "3", "4">>],
      [text |-> TextTotalZero, kind |-> "total", count |-> <<"0">>],
      [text |-> TextTotalSpaced, kind |-> "total", count |-> <<"5", "6">>],
      [text |-> TextMoreThan, kind |-> "more", count |-> <<"5", "0", "0", "0">>],
      [text |-> TextTransfers, kind |-> "none", count |-> <<>>],
      [text |-> TextMoreVague, kind |-> "none", count |-> <<>>] }

\* the pieces of a Jupiter body text: the text, whether it holds the label
\* and the number it holds
JupiterPieces ==
    { [text |-> TextPnlUsd, label |-> TRUE,
       number |-> <<"-", "1", ",", "2", "3", "4", ".", "5", "6">>],
      [text |-> TextPnlPlain, label |-> TRUE,
       number |-> <<"-", "1", ",", "2", "3", "4", ".", "5", "6">>],
      [text |-> TextPnlSpaced, label |-> TRUE,
       number |-> <<"+", "7", ".", "5">>],
      [text |-> TextPnlInteger, label |-> TRUE,
       number |-> <<"1", "2">>],
      [text |-> TextPnlMissing, label |-> TRUE,
       number |-> <<>>],
      [text |-> TextNetWorth, label |-> FALSE,
       number |-> <<"9", "9">>],
      [text |-> TextPortfolio, label |-> FALSE,
       number |-> <<>>] }

PiecesOf(m) == IF m = "solscan" THEN SolscanPieces ELSE JupiterPieces

\* the body texts, as sequences of pieces
Docs(m) == UNION {[1..n -> PiecesOf(m)] : n \in 0..MaxPieces}

\* page.textContent('body') of a page that shows the pieces of d
RECURSIVE Render(_)
Render(d) ==
    IF d = <<>> THEN <<>>
    ELSE IF Len(d) = 1 THEN d[1].text
    ELSE d[1].text \o Separator \o Render(Tail(d))

\* the pages an extractor is handed: Solscan's with the URL run asks for or
\* the URL of a redirect, Jupiter's with the URL run asks for
TestPages(m, d) ==
    IF m = "solscan"
    THEN [title : {TitleSolscan},
          url : {SolscanUrl("wA"), <<"https://solscan.io/account/", "wA">>},
          widgets : {0}, body : {Render(d)}]
    ELSE [title : {TitleJupiter}, url : {JupiterUrl("wA")}, widgets : {0},
          body : {Render(d)}]

\* an extractor is about to be called on a page
InitExtract ==
    /\ metric \in {"solscan", "jupiter"}
    /\ doc \in Docs(metric)
    /\ page \in TestPages(metric, doc)
    /\ pc = "input"
    /\ config = [sheetId |-> TRUE, serviceAccountJson |-> TRUE,
                 csvPath |-> FALSE, maxRetries |-> 1,
                 rateLimitMs |-> DefaultRateLimitMs]
    /\ csvFile = <<>>
    /\ sheet = [r \in Rows |-> [a |-> "", c |-> <<>>, d |-> <<>>]]
    /\ runs = 1
    /\ prevWritten = {}
    /\ wallets = <<>>
    /\ idx = 1
    /\ attempt = 1
    /\ error = "none"
    /\ lastError = "undefined"
    /\ activitiesValue = <<>>
    /\ pnlValue = <<>>
    /\ raised = "none"
    /\ exitCode = -1
    /\ calls = NoCalls
    /\ writeCalls = 0
    /\ visited = {}
    /\ extracted = {}
    /\ results = NoResults
    /\ skipLog = <<>>
    /\ writeLog = <<>>
    /\ lastSleep = NoSleep
    /\ navUnpaused = FALSE
    /\ stalled = FALSE
    /\ step = "none"

\* index.js:166-215  extractSolscanActivities(page) returns or throws
ApplySolscan ==
    /\ pc = "input"
    /\ metric = "solscan"
    /\ step' = "ApplySolscan"
    /\ activitiesValue' = extractSolscanActivities(page).value
    /\ error' = extractSolscanActivities(page).error
    /\ pc' = "output"
    /\ UNCHANGED <<doc, config, csvFile, sheet, runs, prevWritten, wallets, idx,
                   metric, attempt, page, lastError, pnlValue, raised, exitCode>>
    /\ UNCHANGED obsVars

\* index.js:217-232  extractJupiterHoldingsPnl(page) returns or throws
ApplyJupiter ==
    /\ pc = "input"
    /\ metric = "jupiter"
    /\ step' = "ApplyJupiter"
    /\ pnlValue' = extractJupiterHoldingsPnl(page).value
    /\ error' = extractJupiterHoldingsPnl(page).error
    /\ pc' = "output"
    /\ UNCHANGED <<doc, config, csvFile, sheet, runs, prevWritten, wallets, idx,
                   metric, attempt, page, lastError, activitiesValue, raised,
                   exitCode>>
    /\ UNCHANGED obsVars

NextExtract ==
    \/ ApplySolscan
    \/ ApplyJupiter

\* one call of an extractor on a page
SpecExtract == InitExtract /\ [][NextExtract]_vars

(***************************************************************************)
(* Properties.                                                             *)
(***************************************************************************)
RowsOf(log) == {log[i].rowIndex : i \in 1..Len(log)}
Populated(entry) == entry.activities # <<>> /\ entry.holdingsPnl # <<>>
Aborting == pc \in {"hook", "fatal"} \/ (pc = "done" /\ exitCode = 1)
RateLimitSleep == [kind |-> "rateLimit", ms |-> config.rateLimitMs, after |-> 0]

\* C1: a wallet record whose activities and holdingsPnl are both non-empty is
\* skipped wherever it stands in the list: no page.goto and no extractor call
\* is made for its row, nothing is written for it, and once the loop has
\* passed it the skip is in the log.
C1_PopulatedRowsSkipped ==
    \A i \in 1..Len(wallets) :
        Populated(wallets[i]) =>
            /\ wallets[i].rowIndex \notin visited
            /\ wallets[i].rowIndex \notin extracted
            /\ wallets[i].rowIndex \notin RowsOf(writeLog)
            /\ i < idx => wallets[i].rowIndex \in RowsOf(skipLog)

\* a populated row standing after a row the run navigated for has been passed
C1_Witness ==
    \E i \in 2..Len(wallets) :
        /\ Populated(wallets[i])
        /\ wallets[i].wallet # ""
        /\ wallets[i - 1].rowIndex \in visited
        /\ i < idx

\* C2: a record without a wallet address is skipped with the log entry
\* "Skipping empty wallet row", no page.goto is ever issued for it, and the
\* step that skips it moves the loop to the next record.
C2_MissingWalletSkipped ==
    /\ [](\A i \in 1..Len(wallets) :
            wallets[i].wallet = "" =>
                /\ wallets[i].rowIndex \notin visited
                /\ i < idx => [message |-> "Skipping empty wallet row",
                               rowIndex |-> wallets[i].rowIndex]
                                 \in {skipLog[k] : k \in 1..Len(skipLog)})
    /\ [][(pc = "loop" /\ idx <= Len(wallets) /\ wallets[idx].wallet = "")
            => (idx' = idx + 1 /\ pc' = "loop" /\ Len(skipLog') = Len(skipLog) + 1)]_vars

\* a record without address was skipped and a later record was navigated for
C2_Witness ==
    \E i \in 1..Len(wallets) : \E j \in 1..Len(wallets) :
        /\ wallets[i].wallet = ""
        /\ i < j
        /\ wallets[j].rowIndex \in visited

\* C3: with maxRetries = N >= 1, a withRetries call that returns on attempt j
\* has invoked the task exactly j times (j <= N) and the failure hook never;
\* one whose task failed N times has invoked the task exactly N times, the
\* hook exactly once, and the error that then reaches the caller is the last
\* error of the task.
C3_RetryCounts ==
    config.maxRetries >= 1 =>
        /\ (step = "ExtractStep" /\ pc \in {"pause1", "write"}) =>
              /\ calls.task = attempt
              /\ attempt <= config.maxRetries
              /\ calls.hook = 0
        /\ step = "Hook" =>
              /\ calls.task = config.maxRetries
              /\ calls.hook = 1
              /\ raised = lastError

PendingWallets ==
    SelectSeq(wallets, LAMBDA e : e.wallet # "" /\ ~Populated(e))

\* C5: a run that ends without an exhausted extraction and without a failed
\* sink write has made exactly one sink write per pending record and no
\* other, in list order, each to the record's row with the two values the
\* extractors returned for that wallet; the row's cells hold these values.
C5_OneWritePerPendingWallet ==
    (pc = "done" /\ exitCode = 0) =>
        /\ writeLog = [i \in 1..Len(PendingWallets) |->
                [rowIndex |-> PendingWallets[i].rowIndex,
                 activities |-> results[PendingWallets[i].rowIndex].activities,
                 holdingsPnl |-> results[PendingWallets[i].rowIndex].holdingsPnl]]
        /\ \A i \in 1..Len(writeLog) :
              /\ sheet[writeLog[i].rowIndex].c = writeLog[i].activities
              /\ sheet[writeLog[i].rowIndex].d = writeLog[i].holdingsPnl
              /\ writeLog[i].activities # <<>>
              /\ writeLog[i].holdingsPnl # <<>>

\* a run over two pending wallets ended well, with different activity counts
C5_Witness ==
    /\ pc = "done"
    /\ exitCode = 0
    /\ Len(writeLog) = 2
    /\ writeLog[1].activities # writeLog[2].activities

\* C6: once a withRetries call is exhausted or a sink write has failed, the
\* run only takes the failure hook and the fatal exit: no page.goto, no
\* extractor call and no sink write follows, for this wallet or a later one,
\* the sheet stays as the earlier writes left it, and the process ends with
\* exit code 1; a failed sink write was called once.
C6_FailureTerminatesRun ==
    /\ [][Aborting =>
            /\ Aborting'
            /\ step' \in {"Hook", "Fatal"}
            /\ visited' = visited
            /\ extracted' = extracted
            /\ calls'.task = calls.task
            /\ writeCalls' = writeCalls
            /\ writeLog' = writeLog
            /\ sheet' = sheet
            /\ idx' = idx]_vars
    /\ []((pc = "done" /\ raised # "none") => exitCode = 1)
    /\ []((pc = "fatal" /\ raised = "SinkError") => writeCalls = 1)
    /\ []((pc = "done" /\ exitCode = 1) =>
            \A i \in 1..Len(writeLog) :
                /\ sheet[writeLog[i].rowIndex].c = writeLog[i].activities
                /\ sheet[writeLog[i].rowIndex].d = writeLog[i].holdingsPnl)

\* the second wallet failed after the first one was written
C6_Witness ==
    /\ pc = "done"
    /\ exitCode = 1
    /\ Len(writeLog) = 1
    /\ idx = 2
    /\ Len(wallets) = 2

\* C7: a restarted run issues no page.goto for a row whose two result cells
\* an earlier run wrote.
C7_RestartSkipsWrittenRows == visited \cap prevWritten = {}

\* C8 as claimed: every page.goto is followed by a rate-limit sleep before
\* the next page.goto and before the run ends, whether or not the attempt it
\* starts succeeds.
C8_PauseAfterEveryNavigation ==
    (pc \in {"goto", "done"}) => ~navUnpaused

\* C8 as amended: the rate-limit sleep of CONFIG.rateLimitMs is taken after
\* the first withRetries call returned (between the two metrics) and after
\* the sink write (after the wallet completes); a failed attempt is followed
\* by the backoff sleep and no rate-limit sleep, and so is the last
\* navigation of a run that aborts.
C8_PauseOnSuccessOnly ==
    /\ (pc = "goto" /\ attempt = 1 /\ metric = "jupiter") =>
          lastSleep = RateLimitSleep /\ ~navUnpaused
    /\ step = "RateLimitPause3" => lastSleep = RateLimitSleep /\ ~navUnpaused
    /\ (pc = "done" /\ exitCode = 0) => ~navUnpaused
    /\ (pc = "goto" /\ attempt > 1) => lastSleep.kind = "backoff" /\ navUnpaused
    /\ (Aborting /\ calls.task > 0) => navUnpaused

\* the second attempt at source B is about to start: the first was followed
\* by the backoff only
C8_Witness ==
    /\ pc = "goto"
    /\ metric = "jupiter"
    /\ attempt = 2
    /\ navUnpaused
    /\ lastSleep.kind = "backoff"

\* C9: a stall is entered only when the detector reports a challenge on the
\* page just navigated to, and the only step out of it is the operator's
\* resumption: during the stall nothing is navigated or extracted, and the
\* resumption leaves withRetries' attempt as it was.
C9_StallIsIndefinite ==
    /\ [](pc = "prompt" => (step = "Detect" /\ detectVerification(page)))
    /\ [][pc = "prompt" =>
            /\ step' = "Resume"
            /\ attempt' = attempt
            /\ calls' = calls
            /\ visited' = visited
            /\ extracted' = extracted]_vars

\* a stall in the second attempt was resumed
C9_Witness ==
    /\ step = "Resume"
    /\ attempt = 2
    /\ calls.task = 2

\* C10 as claimed: after a resumed stall the source is navigated to again
\* before the extractor runs.
C10_RenavigatesAfterResume == pc = "extract" => ~stalled

\* C10 as amended: after a resumed stall the step that follows is the
\* extractor, on the page as the resumption left it: no page.goto is issued
\* and the detector is not consulted again in that attempt.
C10_ExtractsAfterResume ==
    [][step = "Resume" =>
          /\ step' = "ExtractStep"
          /\ page' = page
          /\ calls' = calls
          /\ attempt' = attempt]_vars

\* the extractor ran after a resumed stall, with no navigation in between
C10_Witness ==
    /\ step = "ExtractStep"
    /\ stalled

FirstOf(S) == CHOOSE i \in S : \A k \in S : i <= k
Outcome(value, err) == [ok |-> err = "none", value |-> value]

\* what C11 asks of the activities extractor on a body text made of the
\* pieces d, shown under the URL url
SolscanExpected(d, url) ==
    LET totals == {i \in 1..Len(d) : d[i].kind = "total"}
        mores == {i \in 1..Len(d) : d[i].kind = "more"}
        zeros == {i \in totals : d[i].count = <<"0">>}
    IN  IF totals # {} THEN [ok |-> TRUE, value |-> d[FirstOf(totals)].count]
        ELSE IF mores # {} THEN [ok |-> TRUE, value |-> d[FirstOf(mores)].count]
        ELSE IF zeros # {} THEN [ok |-> TRUE, value |-> <<"0">>]
        ELSE IF UrlIncludes(url, "#activities") THEN [ok |-> TRUE, value |-> <<"0">>]
        ELSE [ok |-> FALSE, value |-> <<>>]

\* C11: extractSolscanActivities decides in priority order over the body
\* text: a "Total N activity/activities" phrase gives N without commas even
\* when a "More than N activities" phrase is there too; else a "More than"
\* phrase gives its N without commas; else a zero-activity phrase gives "0";
\* else the activities URL gives "0"; otherwise it throws.
C11_PriorityOrder ==
    (pc = "output" /\ metric = "solscan") =>
        Outcome(activitiesValue, error) = SolscanExpected(doc, page.url)

\* a text with a "More than" phrase before a "Total" phrase gave the Total
C11_Witness ==
    /\ pc = "output"
    /\ metric = "solscan"
    /\ Len(doc) = 2
    /\ doc[1].text = TextMoreThan
    /\ doc[2].text = TextTotal
    /\ activitiesValue = <<"1", "2", "3", "4">>

\* what C12 asks of the holdings extractor on a body text made of the pieces
\* d: the number of the first piece, from the label on, that holds one
JupiterExpected(d) ==
    LET labels == {i \in 1..Len(d) : d[i].label}
        numbers == {i \in 1..Len(d) :
                      /\ d[i].number # <<>>
                      /\ \E k \in labels : k <= i}
    IN  IF numbers # {} THEN [ok |-> TRUE, value |-> d[FirstOf(numbers)].number]
        ELSE [ok |-> FALSE, value |-> <<>>]

\* C12: extractJupiterHoldingsPnl returns the whole signed decimal number
\* that follows the "Holdings PnL" label, as it stands in the text, with or
\* without a "$" before it, and throws exactly when the label or a number
\* after it is missing.
C12_WholeNumberReturned ==
    (pc = "output" /\ metric = "jupiter") =>
        Outcome(pnlValue, error) = JupiterExpected(doc)

\* C13: the sink write of a row is reached only after both extractors
\* returned for that row's wallet in this loop iteration; the one
\* writeSheetValues call carries exactly these two values, into the two cells
\* of that row, and nothing else changes the sheet.
C13_WriteOnlyAfterBothExtractions ==
    /\ [](pc = "write" =>
            /\ Entry.rowIndex \in extracted
            /\ activitiesValue # <<>>
            /\ pnlValue # <<>>
            /\ results[Entry.rowIndex] =
                  [activities |-> activitiesValue, holdingsPnl |-> pnlValue]
            /\ writeCalls = 0)
    /\ [](\A i \in 1..Len(writeLog) :
            /\ results[writeLog[i].rowIndex].activities = writeLog[i].activities
            /\ results[writeLog[i].rowIndex].holdingsPnl = writeLog[i].holdingsPnl
            /\ \A k \in 1..Len(writeLog) :
                  writeLog[k].rowIndex = writeLog[i].rowIndex => k = i)
    /\ [][sheet' # sheet =>
            /\ pc = "write"
            /\ step' = "Write"
            /\ writeCalls' = 1
            /\ sheet' = [sheet EXCEPT ![Entry.rowIndex] =
                            [a |-> @.a, c |-> results[Entry.rowIndex].activities,
                             d |-> results[Entry.rowIndex].holdingsPnl]]]_vars

\* the second wallet was written after its holdings needed a second attempt
C13_Witness ==
    /\ step = "Write"
    /\ pc = "pause3"
    /\ Len(writeLog) = 2
    /\ metric = "jupiter"
    /\ attempt = 2

\* C14: withRetries takes a backoff sleep only after a failed attempt k with
\* k < maxRetries; after the failure of the final attempt no backoff sleep is
\* taken before the failure hook.
C14_NoBackoffAfterFinalAttempt ==
    lastSleep.kind = "backoff" => lastSleep.after < config.maxRetries

\* C15: when the screenshot capture of the failure hook fails, the error that
\* leaves the loop iteration and reaches run().catch is still withRetries'
\* last error; the capture is called once.
C15_CaptureFailureKeepsError ==
    (pc = "fatal" /\ step = "Hook") =>
        /\ raised = lastError
        /\ calls.hook = 1

InIteration ==
    pc \in {"goto", "detect", "prompt", "extract", "catch", "pause1", "write",
            "pause3"}

\* C16 as claimed: a rate-limit sleep separates the end of the holdings
\* extraction from the sink write, so that at the sink write no page.goto is
\* left without a rate-limit sleep after it.
C16_PauseBeforeSinkWrite == pc = "write" => ~navUnpaused

\* C16 as amended: for a wallet that is processed the steps are, in this
\* order and within one loop iteration: navigate source A, verify, extract,
\* rate-limit sleep, navigate source B, verify, extract, sink write,
\* rate-limit sleep. The sink write follows the holdings extraction directly,
\* with no sleep in between, and the next wallet begins only after the sleep
\* that follows the write.
C16_StepOrder ==
    [][/\ (step = "BeginWallet" /\ pc = "goto") =>
             (step' = "Goto" /\ metric' = "solscan")
       /\ (step = "Goto" /\ pc = "detect") => step' = "Detect"
       /\ (step = "Detect" /\ pc = "extract") => step' = "ExtractStep"
       /\ (step = "ExtractStep" /\ pc = "pause1") =>
             (step' = "RateLimitPause1" /\ lastSleep' = RateLimitSleep)
       /\ (step = "RateLimitPause1" /\ pc = "goto") =>
             (step' = "Goto" /\ metric' = "jupiter")
       /\ (step = "ExtractStep" /\ pc = "write") =>
             /\ step' = "Write"
             /\ metric = "jupiter"
             /\ navUnpaused /\ navUnpaused'
             /\ lastSleep' = lastSleep
       /\ (step = "Write" /\ pc = "pause3") =>
             (step' = "RateLimitPause3" /\ lastSleep' = RateLimitSleep)
       /\ InIteration => (idx' = idx \/ (step' = "RateLimitPause3" /\ idx' = idx + 1))
       /\ step' = "BeginWallet" =>
             step \in {"Startup", "SkipEmpty", "SkipProcessed", "RateLimitPause3"}
      ]_vars

\* the second wallet begins after the first one was written and paused for
C16_Witness ==
    /\ step = "BeginWallet"
    /\ idx = 2
    /\ Len(writeLog) = 1
    /\ lastSleep = RateLimitSleep

\* C17: a page.goto that times out throws inside the task that withRetries
\* wraps, as an extractor's error does: the catch block takes it, it uses up
\* one attempt of that withRetries call, and every attempt begins with a
\* page.goto. So each withRetries call issues at most maxRetries navigations,
\* one per attempt, and the holdings source is navigated to only after the
\* activities extractor returned for this wallet.
C17_NavigationFailureRetried ==
    /\ [](calls.task <= config.maxRetries)
    /\ [](pc = "goto" => calls.task = attempt - 1)
    /\ [](pc \in {"detect", "prompt", "extract", "catch"} => calls.task = attempt)
    /\ []((metric = "jupiter" /\ InIteration /\ pc # "pause3") =>
            /\ results[Entry.rowIndex].activities # <<>>
            /\ results[Entry.rowIndex].activities = activitiesValue)
    /\ [][error' = "NavigationError" => (step' = "Goto" /\ pc' = "catch")]_vars
    /\ [][pc = "catch" =>
            /\ step' = "Catch"
            /\ lastError' = error
            /\ attempt' = attempt + 1
            /\ calls' = calls
            /\ pc' = IF attempt < config.maxRetries THEN "goto" ELSE "hook"]_vars

\* the holdings extractor runs in the second attempt, after the page.goto of
\* the first attempt timed out
C17_Witness ==
    /\ pc = "extract"
    /\ metric = "jupiter"
    /\ attempt = 2
    /\ calls.task = 2
    /\ lastError = "NavigationError"

\* C18: when every awaited operation settles and the operator answers every
\* prompt, the run ends: with exit code 0 after the loop has passed every
\* record, or with exit code 1 after a failure that left the loop. The loop
\* only moves forward, one record at a time, and begins no record that was
\* navigated to, extracted or written before.
C18_RunTerminates ==
    /\ <>(pc = "done")
    /\ []((pc = "done" /\ exitCode = 0) => idx = Len(wallets) + 1 \/ wallets = <<>>)
    /\ []((pc = "done" /\ wallets # <<>>) => exitCode \in {0, 1})
    /\ []((pc = "done" /\ exitCode = 1) => raised # "none")
    /\ [][idx' \in {idx, idx + 1}]_vars
    /\ [][step' = "BeginWallet" =>
            /\ idx' = idx
            /\ Entry.rowIndex \notin visited \cup extracted \cup RowsOf(writeLog)
            /\ Entry.rowIndex \notin RowsOf(skipLog)]_vars

\* the run ended after the loop passed two records, the second after retries
C18_Witness ==
    /\ pc = "done"
    /\ exitCode = 0
    /\ idx = 3
    /\ attempt = 3

\* C19: in a run that got past ensureConfig the retry policy allows at least
\* one attempt, so for a pending wallet the task is invoked at least once
\* before the failure hook runs and before an error is raised for it.
C19_AtLeastOneAttempt ==
    /\ (pc # "start" /\ raised # "ConfigError") => config.maxRetries >= 1
    /\ pc = "hook" => calls.task >= 1
    /\ (pc = "fatal" /\ step = "Hook") => calls.task >= 1

\* C20: whenever a page.goto is about to be issued, a sleep was taken since
\* the page.goto before it: either the backoff sleep of the attempt that just
\* failed, or a rate-limit sleep after which nothing was navigated to.
C20_SuspensionBetweenNavigations ==
    pc = "goto" =>
        \/ ~navUnpaused
        \/ /\ attempt > 1
           /\ step = "Catch"
           /\ lastSleep = [kind |-> "backoff", ms |-> BackoffMs(attempt - 1),
                           after |-> attempt - 1]

\* the second wallet's activities are about to be navigated to again, after
\* the backoff that followed the first attempt
C20_Witness ==
    /\ pc = "goto"
    /\ idx = 2
    /\ metric = "solscan"
    /\ attempt = 2
    /\ navUnpaused
    /\ Len(writeLog) = 1

ActivitiesView == UrlIncludes(page.url, "#activities")
NoActivityPhrase == page.body \in {BodyNoSection, BodyNotFound, BodyChallenge}

\* C21: in the run, when the page.goto to Solscan succeeded and the page's
\* URL still holds "#activities", the activities extractor does not throw,
\* whatever the body text is: a page without an activity phrase gives "0" in
\* that attempt, and "0" is what the sink write carries. So an attempt at the
\* activities only fails after a page.goto that timed out (or on a page
\* whose URL lost "#activities"), and the failure hook of the activities
\* only runs after such a failure.
C21_OnlyNavigationFailsSourceA ==
    /\ (step = "ExtractStep" /\ metric = "solscan" /\ ActivitiesView) =>
          /\ pc = "pause1"
          /\ NoActivityPhrase => activitiesValue = <<"0">>
    /\ (pc = "write" /\ results[Entry.rowIndex].activities = <<"0">>) =>
          activitiesValue = <<"0">>
    /\ (metric = "solscan" /\ pc = "catch") =>
          error = "NavigationError" \/ ~ActivitiesView
    /\ (metric = "solscan" /\ pc = "hook") =>
          \/ lastError = "NavigationError"
          \/ lastError = extractSolscanActivities(BlankPage).error

Skipped(entry) == entry.wallet = "" \/ Populated(entry)
HalfFilled(entry) ==
    /\ entry.wallet # ""
    /\ (entry.activities # <<>>) # (entry.holdingsPnl # <<>>)

\* C22: the run never writes the result cells of a row it skips (no wallet
\* address, or both result fields filled): they stay as they were loaded. A
\* row with exactly one result field filled is pending: both metrics are
\* fetched for it and the one sink write sets both of its result cells, the
\* filled one included.
C22_SinkFrame ==
    /\ [](\A i \in 1..Len(wallets) :
            Skipped(wallets[i]) =>
                /\ wallets[i].rowIndex \notin RowsOf(writeLog)
                /\ sheet[wallets[i].rowIndex].c = wallets[i].activities
                /\ sheet[wallets[i].rowIndex].d = wallets[i].holdingsPnl)
    /\ [][\A r \in Rows :
            sheet'[r] # sheet[r] =>
                /\ r = Entry.rowIndex
                /\ ~Skipped(Entry)
                /\ sheet'[r].a = sheet[r].a]_vars
    /\ [][(pc = "loop" /\ idx <= Len(wallets) /\ HalfFilled(wallets[idx])) =>
            step' = "BeginWallet"]_vars
    /\ [](\A i \in 1..Len(wallets) :
            (HalfFilled(wallets[i]) /\ i < idx) =>
                /\ wallets[i].rowIndex \in visited \cap extracted
                /\ results[wallets[i].rowIndex].activities # <<>>
                /\ results[wallets[i].rowIndex].holdingsPnl # <<>>
                /\ sheet[wallets[i].rowIndex].c =
                      results[wallets[i].rowIndex].activities
                /\ sheet[wallets[i].rowIndex].d =
                      results[wallets[i].rowIndex].holdingsPnl
                /\ Cardinality({k \in 1..Len(writeLog) :
                      writeLog[k].rowIndex = wallets[i].rowIndex}) = 1)

\* a row that had its activities filled was written anew, with another
\* activities value, and the row after it was skipped and kept its cells
C22_Witness ==
    /\ Len(wallets) = 2
    /\ idx = 3
    /\ HalfFilled(wallets[1])
    /\ wallets[1].activities # <<>>
    /\ sheet[wallets[1].rowIndex].c # wallets[1].activities
    /\ Populated(wallets[2])
    /\ sheet[wallets[2].rowIndex].c = wallets[2].activities

====
